---- MODULE Spec2Model ----
(***************************************************************************)
(* Model of TuiState (src/ops/tree/tui/state.rs): the key dispatcher of    *)
(* the dependency-tree viewer and its incremental search.                  *)
(*                                                                         *)
(* key_event is the argument of the last call of handle_key_event and     *)
(* entry the search and help fields that call started from.                *)
(*                                                                         *)
(* failure records the arithmetic or indexing failure a call ran into, if   *)
(* any: a remainder by zero or a usize subtraction below zero (both panic), *)
(* or a read of search_results at an index it does not have.               *)
(*                                                                         *)
(* scenario counts how many keys of Scenario the session has received, in  *)
(* order and with nothing else, since construction; it is Off once the     *)
(* keys received depart from it.                                           *)
(*                                                                         *)
(* Option<T> is modelled as a sequence of length at most one: None is <<>> *)
(* and Some(x) is <<x>>.  A string is a sequence of one-character strings. *)
(* A NodeId is the 0-based position of a node in dependency_tree.nodes.    *)
(* A key event is <<code>> or <<"Char", c>>; modifiers are ignored by      *)
(* every match arm of handle_key_event and are left out.                   *)
(***************************************************************************)
EXTENDS Integers, Sequences, FiniteSets, TLC

VARIABLES running, dependency_tree, tree_widget_state, show_help,
          search_active, search_query, search_results, search_result_index,
          key_event, entry, failure, scenario

vars == <<running, dependency_tree, tree_widget_state, show_help,
          search_active, search_query, search_results, search_result_index,
          key_event, entry, failure, scenario>>

\* Longest key sequence tried from the initial state.
MaxKeys == 3

\* Longest node name of the trees the matcher is tried on.
MaxNameLen == 3

\* Longest query typed in the model.
MaxQueryLen == 2

None == <<>>

Some(x) == <<x>>

Char(c) == <<"Char", c>>

Code(k) == <<k>>

\* No key has been handled yet.
NoKey == <<>>

\* Characters that can arrive as KeyCode::Char.
Chars == {"/", "n", "N", "c", "q", "?", "p", "]", "[", "s", "e"}

\* Characters typed while the search prompt is open.
TypedChars == {"s", "e", "n", "N", "q", "/"}

\* Characters with an arm of their own in the Normal-mode match.
NormalChars == {"/", "n", "N", "c", "q", "?", "p", "]", "["}

\* Key codes without an arm in the Searching-mode match.
SearchIgnoredCodes == {"PageDown", "PageUp", "Right", "Left", "Tab"}

\* Key codes without an arm in the Normal-mode match.
NormalIgnoredCodes == {"Enter", "Esc", "Backspace", "Tab"}

\* Node names of the trees the session is started on.
\* The tree with nodes "serde", "serde_json", "tokio".
SerdeTree ==
  << <<"s","e","r","d","e">>,
     <<"s","e","r","d","e","_","j","s","o","n">>,
     <<"t","o","k","i","o">> >>

Trees ==
  { SerdeTree,
    << <<"S","y","n">> >> }

\* The keys of the walk-through session: `/`, `s`, `e`, Down, Down.
Scenario ==
  <<Char("/"), Char("s"), Char("e"), Code("Down"), Code("Down")>>

\* The session has left the walk-through.
Off == Len(Scenario) + 1

NodeIds(tree) == 0 .. (Len(tree) - 1)

\* The TuiState the handlers work on.
self ==
  [ running             |-> running,
    dependency_tree     |-> dependency_tree,
    tree_widget_state   |-> tree_widget_state,
    show_help           |-> show_help,
    search_active       |-> search_active,
    search_query        |-> search_query,
    search_results      |-> search_results,
    search_result_index |-> search_result_index,
    failure             |-> failure ]

\* No call has failed.
NoFailure == "none"

\* char::to_lowercase on the characters of the model's alphabet.
LowerChar(c) ==
  CASE c = "N" -> "n"
    [] c = "S" -> "s"
    [] c = "A" -> "a"
    [] c = "B" -> "b"
    [] c = "Z" -> "z"
    [] OTHER   -> c

to_lowercase(str) == [i \in 1 .. Len(str) |-> LowerChar(str[i])]

\* The for loop of is_subsequence_match: i is the position of
\* current_needle_char in the needle (Len(needle) + 1 when it is None) and
\* j the position of haystack_char.  The result is the final i.
RECURSIVE ScanHaystack(_, _, _, _)
ScanHaystack(needle, haystack, i, j) ==
  IF j > Len(haystack) THEN i
  ELSE IF i <= Len(needle) /\ needle[i] = haystack[j]
       THEN ScanHaystack(needle, haystack, i + 1, j + 1)
       ELSE ScanHaystack(needle, haystack, i, j + 1)

\* is_subsequence_match comparing against the haystack as written.
is_subsequence_match_case_sensitive(needle, haystack) ==
  LET needle_lower == to_lowercase(needle)
  IN  ScanHaystack(needle_lower, haystack, 1, 1) > Len(needle_lower)

is_subsequence_match(needle, haystack) ==
  LET needle_lower   == to_lowercase(needle)
      haystack_lower == to_lowercase(haystack)
  IN  ScanHaystack(needle_lower, haystack_lower, 1, 1) > Len(needle_lower)

\* The enumerate loop of perform_search from position index on.
\* The enumerate loop counting the nodes from one.
RECURSIVE CollectMatches_one_based(_, _, _)
CollectMatches_one_based(query, nodes, index) ==
  IF index >= Len(nodes) THEN <<>>
  ELSE IF is_subsequence_match(query, nodes[index + 1])
       THEN <<index + 1>> \o CollectMatches_one_based(query, nodes, index + 1)
       ELSE CollectMatches_one_based(query, nodes, index + 1)

RECURSIVE CollectMatches(_, _, _)
CollectMatches(query, nodes, index) ==
  IF index >= Len(nodes) THEN <<>>
  ELSE IF is_subsequence_match(query, nodes[index + 1])
       THEN <<index>> \o CollectMatches(query, nodes, index + 1)
       ELSE CollectMatches(query, nodes, index + 1)

\* perform_search without the selection of the first match.
perform_search_keeps_selection(s) ==
  IF s.search_query = <<>>
  THEN [s EXCEPT !.search_results = <<>>, !.search_result_index = None]
  ELSE LET results == CollectMatches(s.search_query, s.dependency_tree, 0)
       IN  [s EXCEPT !.search_results = results,
                     !.search_result_index =
                        IF results = <<>> THEN None ELSE Some(0)]

\* perform_search without the early return on an empty query.
perform_search_no_early_return(s) ==
  LET results == CollectMatches(s.search_query, s.dependency_tree, 0)
      s1 == [s EXCEPT !.search_results = results,
                      !.search_result_index =
                         IF results = <<>> THEN None ELSE Some(0)]
  IN  IF results # <<>>
      THEN [s1 EXCEPT !.tree_widget_state.selected = Some(results[1])]
      ELSE s1

perform_search(s) ==
  IF s.search_query = <<>>
  THEN [s EXCEPT !.search_results = <<>>, !.search_result_index = None]
  ELSE LET results == CollectMatches(s.search_query, s.dependency_tree, 0)
           s1 == [s EXCEPT !.search_results = results,
                           !.search_result_index =
                              IF results = <<>> THEN None ELSE Some(0)]
       IN  IF results # <<>>
           THEN [s1 EXCEPT !.tree_widget_state.selected = Some(results[1])]
           ELSE s1

\* next_search_result without the modulus.
next_search_result_no_modulus(s) ==
  IF s.search_results = <<>> THEN s
  ELSE IF s.search_result_index = None THEN s
  ELSE LET next_index == s.search_result_index[1] + 1
           s1 == [s EXCEPT !.search_result_index = Some(next_index)]
       IN  IF next_index < Len(s.search_results)
           THEN [s1 EXCEPT !.tree_widget_state.selected =
                              Some(s.search_results[next_index + 1])]
           ELSE s1

\* next_search_result stopping at the last match instead of wrapping.
next_search_result_saturating(s) ==
  IF s.search_results = <<>> THEN s
  ELSE IF s.search_result_index = None THEN s
  ELSE LET current_index == s.search_result_index[1]
           next_index    == IF current_index + 1 < Len(s.search_results)
                            THEN current_index + 1
                            ELSE current_index
       IN  [s EXCEPT !.search_result_index = Some(next_index),
                     !.tree_widget_state.selected =
                        Some(s.search_results[next_index + 1])]

next_search_result(s) ==
  IF s.search_results = <<>> THEN s
  ELSE IF s.search_result_index = None THEN s
  ELSE IF Len(s.search_results) = 0
       THEN [s EXCEPT !.failure = "remainder by zero"]
  ELSE LET current_index == s.search_result_index[1]
           next_index    == (current_index + 1) % Len(s.search_results)
           s1 == [s EXCEPT !.search_result_index = Some(next_index)]
       IN  IF next_index < Len(s.search_results)
           THEN [s1 EXCEPT !.tree_widget_state.selected =
                              Some(s.search_results[next_index + 1])]
           ELSE [s1 EXCEPT !.failure = "index out of range"]

\* prev_search_result without the wrap at the first match.
prev_search_result_no_wrap(s) ==
  IF s.search_results = <<>> THEN s
  ELSE IF s.search_result_index = None THEN s
  ELSE IF s.search_result_index[1] = 0
       THEN [s EXCEPT !.failure = "subtract with overflow"]
  ELSE LET prev_index == s.search_result_index[1] - 1
           s1 == [s EXCEPT !.search_result_index = Some(prev_index)]
       IN  IF prev_index < Len(s.search_results)
           THEN [s1 EXCEPT !.tree_widget_state.selected =
                              Some(s.search_results[prev_index + 1])]
           ELSE [s1 EXCEPT !.failure = "index out of range"]

prev_search_result(s) ==
  IF s.search_results = <<>> THEN s
  ELSE IF s.search_result_index = None THEN s
  ELSE IF s.search_result_index[1] = 0 /\ Len(s.search_results) = 0
       THEN [s EXCEPT !.failure = "subtract with overflow"]
  ELSE LET current_index == s.search_result_index[1]
           prev_index    == IF current_index = 0
                            THEN Len(s.search_results) - 1
                            ELSE current_index - 1
           s1 == [s EXCEPT !.search_result_index = Some(prev_index)]
       IN  IF prev_index < Len(s.search_results)
           THEN [s1 EXCEPT !.tree_widget_state.selected =
                              Some(s.search_results[prev_index + 1])]
           ELSE [s1 EXCEPT !.failure = "index out of range"]

\* clear_search without search_results.clear().
clear_search_keeps_results(s) ==
  [s EXCEPT !.search_active = FALSE,
            !.search_query = <<>>,
            !.search_result_index = None]

\* clear_search dropping the selection together with the search.
clear_search_resets_selection(s) ==
  [s EXCEPT !.search_active = FALSE,
            !.search_query = <<>>,
            !.search_results = <<>>,
            !.search_result_index = None,
            !.tree_widget_state.selected = None]

clear_search(s) ==
  [s EXCEPT !.search_active = FALSE,
            !.search_query = <<>>,
            !.search_results = <<>>,
            !.search_result_index = None]

\* The tree widget (super::widget::TreeWidgetState).  Its movement
\* operations may put the selection on any node of the tree or leave it.
Moved(w, tree) ==
  {w} \cup {[w EXCEPT !.selected = Some(n)] : n \in NodeIds(tree)}

expand_all(w, tree) == [w EXCEPT !.open = NodeIds(tree)]

expand(w, tree) ==
  IF w.selected = None THEN w
  ELSE [w EXCEPT !.open = @ \cup {w.selected[1]}]

collapse(w, tree) ==
  IF w.selected = None THEN w
  ELSE [w EXCEPT !.open = @ \ {w.selected[1]}]

\* TreeWidgetState::default(): nothing open; the selection is whatever the
\* widget starts with.
DefaultWidgetStates(tree) ==
  {[selected |-> sel, open |-> {}] : sel \in {None, Some(0)}}

\* handle_key_event without its first statement.
DismissHelp_missing(s) == s

\* The first statement of handle_key_event: any key closes the help popup.
DismissHelp(s) ==
  IF s.show_help THEN [s EXCEPT !.show_help = FALSE] ELSE s

\* What the last call of handle_key_event found on entry: the flags and the
\* match list of the state it was called on.
Entry ==
  [ show_help           |-> show_help,
    search_active       |-> search_active,
    search_query        |-> search_query,
    search_results      |-> search_results,
    search_result_index |-> search_result_index ]

\* handle_key_event(k) ran and left the state s.
Store(k, s) ==
  /\ key_event' = k
  /\ entry' = Entry
  /\ running' = s.running
  /\ dependency_tree' = s.dependency_tree
  /\ tree_widget_state' = s.tree_widget_state
  /\ show_help' = s.show_help
  /\ search_active' = s.search_active
  /\ search_query' = s.search_query
  /\ search_results' = s.search_results
  /\ search_result_index' = s.search_result_index
  /\ failure' = s.failure
  /\ scenario' = IF /\ scenario # Off
                    /\ scenario < Len(Scenario)
                    /\ Scenario[scenario + 1] = k
                 THEN scenario + 1
                 ELSE Off

Init ==
  /\ running = TRUE
  /\ dependency_tree \in Trees
  /\ tree_widget_state \in
       {expand_all(w, dependency_tree) : w \in DefaultWidgetStates(dependency_tree)}
  /\ show_help = FALSE
  /\ search_active = FALSE
  /\ search_query = <<>>
  /\ search_results = <<>>
  /\ search_result_index = None
  /\ key_event = NoKey
  /\ entry = Entry
  /\ failure = NoFailure
  /\ scenario = 0

(***************************************************************************)
(* Searching mode: the arms of the first match.                            *)
(***************************************************************************)
\* The Enter arm dropping the highlights as Escape does.
SearchEnter_clears ==
  /\ DismissHelp(self).search_active
  /\ Store(Code("Enter"), clear_search(DismissHelp(self)))

SearchEnter ==
  /\ DismissHelp(self).search_active
  /\ Store(Code("Enter"), [DismissHelp(self) EXCEPT !.search_active = FALSE])

SearchEsc ==
  /\ DismissHelp(self).search_active
  /\ Store(Code("Esc"), clear_search(DismissHelp(self)))

\* String::pop removes the last character, if there is one.
Pop(str) == IF str = <<>> THEN <<>> ELSE SubSeq(str, 1, Len(str) - 1)

SearchBackspace ==
  /\ DismissHelp(self).search_active
  /\ Store(Code("Backspace"),
           perform_search([DismissHelp(self) EXCEPT !.search_query = Pop(@)]))

\* The Char arm of Searching mode letting `q` through to the quit command.
SearchChar_quits(c) ==
  /\ DismissHelp(self).search_active
  /\ c # "/"
  /\ Len(search_query) < MaxQueryLen
  /\ IF c = "q"
     THEN Store(Char(c), [DismissHelp(self) EXCEPT !.running = FALSE])
     ELSE Store(Char(c),
                perform_search([DismissHelp(self) EXCEPT
                                  !.search_query = Append(@, c)]))

SearchChar(c) ==
  /\ DismissHelp(self).search_active
  /\ c # "/"
  /\ Len(search_query) < MaxQueryLen
  /\ Store(Char(c),
           perform_search([DismissHelp(self) EXCEPT !.search_query = Append(@, c)]))

SearchDown ==
  /\ DismissHelp(self).search_active
  /\ Store(Code("Down"), next_search_result(DismissHelp(self)))

SearchUp ==
  /\ DismissHelp(self).search_active
  /\ Store(Code("Up"), prev_search_result(DismissHelp(self)))

\* The default arm with `/` falling into the Char arm instead.
SearchIgnored_slash_typed(k) ==
  /\ DismissHelp(self).search_active
  /\ IF k = Char("/")
     THEN Store(k, perform_search([DismissHelp(self) EXCEPT
                                     !.search_query = Append(@, "/")]))
     ELSE Store(k, DismissHelp(self))

SearchIgnored(k) ==
  /\ DismissHelp(self).search_active
  /\ Store(k, DismissHelp(self))

(***************************************************************************)
(* Normal mode: the arms of the second match.                              *)
(***************************************************************************)
\* The `/` arm starting the new search from a cleared state.
NormalSlash_clears ==
  /\ ~DismissHelp(self).search_active
  /\ Store(Char("/"), [clear_search(DismissHelp(self)) EXCEPT
                         !.search_active = TRUE])

\* The `/` arm run before the help popup is closed.
NormalSlash_keeps_help ==
  /\ ~self.search_active
  /\ Store(Char("/"), [self EXCEPT !.search_active = TRUE,
                                   !.search_query = <<>>,
                                   !.search_result_index = None])

NormalSlash ==
  /\ ~DismissHelp(self).search_active
  /\ Store(Char("/"), [DismissHelp(self) EXCEPT !.search_active = TRUE,
                                                !.search_query = <<>>,
                                                !.search_result_index = None])

NormalNextResult ==
  /\ ~DismissHelp(self).search_active
  /\ Store(Char("n"), next_search_result(DismissHelp(self)))

NormalPrevResult ==
  /\ ~DismissHelp(self).search_active
  /\ Store(Char("N"), prev_search_result(DismissHelp(self)))

NormalClear ==
  /\ ~DismissHelp(self).search_active
  /\ Store(Char("c"), clear_search(DismissHelp(self)))

NormalQuit ==
  /\ ~DismissHelp(self).search_active
  /\ Store(Char("q"), [DismissHelp(self) EXCEPT !.running = FALSE])

NormalHelp ==
  /\ ~DismissHelp(self).search_active
  /\ Store(Char("?"), [DismissHelp(self) EXCEPT !.show_help = ~@])

\* select_parent, select_next_sibling, select_previous_sibling, page_down
\* and page_up: one arm each, all delegating to the widget.
NormalDelegate(k) ==
  /\ ~DismissHelp(self).search_active
  /\ \E w \in Moved(tree_widget_state, dependency_tree) :
       Store(k, [DismissHelp(self) EXCEPT !.tree_widget_state = w])

\* The Down arm testing for search results instead of the search mode.
NormalDown_follows_results ==
  /\ ~DismissHelp(self).search_active
  /\ IF DismissHelp(self).search_results # <<>>
     THEN Store(Code("Down"), next_search_result(DismissHelp(self)))
     ELSE \E w \in Moved(tree_widget_state, dependency_tree) :
            Store(Code("Down"), [DismissHelp(self) EXCEPT !.tree_widget_state = w])

NormalDown ==
  /\ ~DismissHelp(self).search_active
  /\ IF DismissHelp(self).search_active
     THEN Store(Code("Down"), next_search_result(DismissHelp(self)))
     ELSE \E w \in Moved(tree_widget_state, dependency_tree) :
            Store(Code("Down"), [DismissHelp(self) EXCEPT !.tree_widget_state = w])

NormalUp ==
  /\ ~DismissHelp(self).search_active
  /\ IF DismissHelp(self).search_active
     THEN Store(Code("Up"), prev_search_result(DismissHelp(self)))
     ELSE \E w \in Moved(tree_widget_state, dependency_tree) :
            Store(Code("Up"), [DismissHelp(self) EXCEPT !.tree_widget_state = w])

NormalRight ==
  /\ ~DismissHelp(self).search_active
  /\ Store(Code("Right"),
           [DismissHelp(self) EXCEPT
              !.tree_widget_state = expand(@, dependency_tree)])

NormalLeft ==
  /\ ~DismissHelp(self).search_active
  /\ Store(Code("Left"),
           [DismissHelp(self) EXCEPT
              !.tree_widget_state = collapse(@, dependency_tree)])

NormalIgnored(k) ==
  /\ ~DismissHelp(self).search_active
  /\ Store(k, DismissHelp(self))

(***************************************************************************)
(* The matcher on its own: sessions over one-node trees, the node name     *)
(* drawn from every short string over MatchAlphabet, in which a query over *)
(* the same alphabet is typed and edited.                                  *)
(***************************************************************************)
MatchAlphabet == {"a", "b", "B"}

\* "Alpha-Beta", "Zab" and "ba".
AlphaBeta == <<"A","l","p","h","a","-","B","e","t","a">>

Zab == <<"Z","a","b">>

Ba == <<"b","a">>

MatchNames ==
  UNION {[1 .. n -> MatchAlphabet] : n \in 1 .. MaxNameLen}
    \cup {AlphaBeta, Zab, Ba}

InitMatch ==
  /\ running = TRUE
  /\ dependency_tree \in {<<name>> : name \in MatchNames}
  /\ tree_widget_state \in
       {expand_all(w, dependency_tree) : w \in DefaultWidgetStates(dependency_tree)}
  /\ show_help = FALSE
  /\ search_active = FALSE
  /\ search_query = <<>>
  /\ search_results = <<>>
  /\ search_result_index = None
  /\ key_event = NoKey
  /\ entry = Entry
  /\ failure = NoFailure
  /\ scenario = 0

NextMatch ==
  \/ NormalSlash
  \/ \E c \in MatchAlphabet : SearchChar(c)
  \/ SearchBackspace

SpecMatch == InitMatch /\ [][NextMatch]_vars

\* Every key event of the model.
Keys ==
  {Char(c) : c \in Chars}
    \cup {Code(x) : x \in {"Enter", "Esc", "Backspace", "Down", "Up",
                           "PageDown", "PageUp", "Right", "Left", "Tab"}}

\* handle_key_event as a function of the state it is called on and the key:
\* the set of states it can leave (one state, except where the tree widget
\* decides the outcome).
handle_key_event(s, k) ==
  LET d == DismissHelp(s)
      delegated == {[d EXCEPT !.tree_widget_state = w] :
                      w \in Moved(d.tree_widget_state, d.dependency_tree)}
  IN  IF d.search_active
      THEN CASE k = Code("Enter") -> {[d EXCEPT !.search_active = FALSE]}
             [] k = Code("Esc") -> {clear_search(d)}
             [] k = Code("Backspace") ->
                  {perform_search([d EXCEPT !.search_query = Pop(@)])}
             [] Len(k) = 2 /\ k # Char("/") ->
                  {perform_search([d EXCEPT !.search_query = Append(@, k[2])])}
             [] k = Code("Down") -> {next_search_result(d)}
             [] k = Code("Up") -> {prev_search_result(d)}
             [] OTHER -> {d}
      ELSE CASE k = Char("/") ->
                  {[d EXCEPT !.search_active = TRUE,
                             !.search_query = <<>>,
                             !.search_result_index = None]}
             [] k = Char("n") -> {next_search_result(d)}
             [] k = Char("N") -> {prev_search_result(d)}
             [] k = Char("c") -> {clear_search(d)}
             [] k = Char("q") -> {[d EXCEPT !.running = FALSE]}
             [] k = Char("?") -> {[d EXCEPT !.show_help = ~@]}
             [] k \in {Char("p"), Char("]"), Char("["), Code("Down"),
                       Code("Up"), Code("PageDown"), Code("PageUp")} ->
                  delegated
             [] k = Code("Right") ->
                  {[d EXCEPT !.tree_widget_state = expand(@, d.dependency_tree)]}
             [] k = Code("Left") ->
                  {[d EXCEPT !.tree_widget_state = collapse(@, d.dependency_tree)]}
             [] OTHER -> {d}

Next ==
  \/ SearchEnter
  \/ SearchEsc
  \/ SearchBackspace
  \/ \E c \in TypedChars : SearchChar(c)
  \/ SearchDown
  \/ SearchUp
  \/ \E k \in {Char("/")} \cup {Code(x) : x \in SearchIgnoredCodes} : SearchIgnored(k)
  \/ NormalSlash
  \/ NormalNextResult
  \/ NormalPrevResult
  \/ NormalClear
  \/ NormalQuit
  \/ NormalHelp
  \/ \E k \in {Char("p"), Char("]"), Char("["), Code("PageDown"), Code("PageUp")} :
       NormalDelegate(k)
  \/ NormalDown
  \/ NormalUp
  \/ NormalRight
  \/ NormalLeft
  \/ \E k \in {Char(c) : c \in Chars \ NormalChars}
              \cup {Code(x) : x \in NormalIgnoredCodes} : NormalIgnored(k)

Spec == Init /\ [][Next]_vars

(***************************************************************************)
(* Properties.                                                             *)
(***************************************************************************)

\* The call that just ended was "next match": Down in Searching mode or `n`
\* in Normal mode.
AdvancedNext ==
  \/ entry.search_active /\ key_event = Code("Down")
  \/ ~entry.search_active /\ key_event = Char("n")

\* The call that just ended was "previous match": Up in Searching mode or
\* `N` in Normal mode.
AdvancedPrev ==
  \/ entry.search_active /\ key_event = Code("Up")
  \/ ~entry.search_active /\ key_event = Char("N")

\* The call that just ended was a clear: `c` in Normal mode or Escape in
\* Searching mode.
Cleared ==
  \/ ~entry.search_active /\ key_event = Char("c")
  \/ entry.search_active /\ key_event = Code("Esc")

\* C1: in every reachable state search_result_index is None exactly when
\* search_results is empty.
C1_CursorNoneIffNoMatches ==
  (search_result_index = None) <=> (search_results = <<>>)

\* The match list a full recomputation gives for a query.
Recomputed(query, tree) ==
  IF query = <<>> THEN <<>> ELSE CollectMatches(query, tree, 0)

\* C2: in every reachable state search_results is the full recomputation
\* for the current search_query: empty for the empty query, otherwise the
\* matching nodes.
C2_ResultsNeverStale ==
  search_results = Recomputed(search_query, dependency_tree)

\* C3: in every reachable state with search_active false and an empty
\* search_query, search_results is empty and search_result_index is None.
C3_ClearedTogether ==
  (~search_active /\ search_query = <<>>)
    => (search_results = <<>> /\ search_result_index = None)

\* C4: in every reachable state, if search_result_index is Some(i) then
\* 0 <= i < len(search_results).
C4_CursorInRange ==
  search_result_index # None
    => /\ Len(search_result_index) = 1
       /\ search_result_index[1] \in 0 .. (Len(search_results) - 1)

\* The cursor has just been advanced off the first match.
C4_Witness ==
  /\ AdvancedNext
  /\ entry.search_result_index = Some(0)
  /\ search_result_index = Some(1)
  /\ Len(search_results) = 2

\* C5: whenever search_results is non-empty, advancing moves
\* search_result_index by +1 (next) or -1 (previous) modulo the number of
\* matches and selects search_results[new index].
C5_AdvanceMovesCursor ==
  ((AdvancedNext \/ AdvancedPrev) /\ entry.search_results # <<>>)
    => /\ entry.search_result_index # None
       /\ search_result_index # None
       /\ search_result_index[1] =
            (entry.search_result_index[1]
               + (IF AdvancedNext THEN 1 ELSE Len(search_results) - 1))
              % Len(search_results)
       /\ tree_widget_state.selected =
            Some(search_results[search_result_index[1] + 1])

\* next_search_result applied n times in a row.
RECURSIVE NextTimes(_, _)
NextTimes(s, n) ==
  IF n = 0 THEN s ELSE NextTimes(next_search_result(s), n - 1)

\* C6: from any reachable state with a non-empty search_results, applying
\* next_search_result len(search_results) times in a row brings
\* search_result_index back to the value it started from.
C6_NextIsCyclic ==
  search_results # <<>>
    => NextTimes(self, Len(search_results)).search_result_index
         = search_result_index

\* A next-advance has just wrapped from the last match to the first.
C6_Witness ==
  /\ AdvancedNext
  /\ Len(search_results) = 2
  /\ entry.search_result_index = Some(1)
  /\ search_result_index = Some(0)

\* C7: `c` in Normal mode, or Escape in Searching mode, leaves
\* search_active false, search_query empty, search_results empty and
\* search_result_index None.
C7_ClearResetsAllFour ==
  Cleared
    => /\ search_active = FALSE
       /\ search_query = <<>>
       /\ search_results = <<>>
       /\ search_result_index = None

\* Escape has just cleared a search that had a query, matches and a cursor.
C7_Witness ==
  /\ key_event = Code("Esc")
  /\ entry.search_active
  /\ entry.search_query # <<>>
  /\ entry.search_results # <<>>
  /\ entry.search_result_index # None
  /\ ~search_active
  /\ search_results = <<>>

\* C8: `/` in Normal mode sets search_active, empties search_query, sets
\* search_result_index to None and leaves search_results as it was.
C8_SlashKeepsResults ==
  [][ (~search_active /\ key_event' = Char("/"))
        => /\ search_active' = TRUE
           /\ search_query' = <<>>
           /\ search_result_index' = None
           /\ search_results' = search_results ]_vars

\* `/` has just been pressed in Normal mode over a kept match list.
C8_Witness ==
  /\ key_event = Char("/")
  /\ ~entry.search_active
  /\ entry.search_query # <<>>
  /\ entry.search_results # <<>>
  /\ entry.search_result_index # None
  /\ search_active
  /\ search_results = entry.search_results

\* C9: running starts true; it changes only by `q` handled with
\* search_active false, which makes it false; `q` handled with search_active
\* true is appended to search_query and leaves running alone; once false,
\* running stays false.
C9_QuitOnlyInNormalMode ==
  /\ running = TRUE
  /\ [][ /\ (running' # running)
            => (~search_active /\ key_event' = Char("q") /\ running' = FALSE)
         /\ (~search_active /\ key_event' = Char("q")) => (running' = FALSE)
         /\ (search_active /\ key_event' = Char("q"))
            => (running' = running /\ search_query' = Append(search_query, "q"))
         /\ (running = FALSE) => (running' = FALSE) ]_vars

\* `q` has just been typed into the query of a session that had quit
\* before.
C9_Witness ==
  /\ key_event = Char("q")
  /\ entry.search_active
  /\ search_active
  /\ search_query = <<"q">>
  /\ running = FALSE

RECURSIVE ReachableWithin(_, _)
ReachableWithin(S, n) ==
  IF n = 0 THEN S
  ELSE ReachableWithin(
         S \cup UNION {handle_key_event(s, k) : s \in S, k \in Keys}, n - 1)

\* C11 as stated: from the initial state some sequence of keys reaches a
\* state with show_help and search_active both true, and some sequence
\* reaches one with show_help true and search_active false.
C11_HelpInEitherMode ==
  key_event = NoKey
    => /\ \E s \in ReachableWithin({self}, MaxKeys) :
            s.show_help /\ s.search_active
       /\ \E s \in ReachableWithin({self}, MaxKeys) :
            s.show_help /\ ~s.search_active

\* C11 amended: the help popup is only ever visible in Normal mode; no
\* reachable state has show_help and search_active both true.
C11_HelpOnlyInNormalMode ==
  show_help => ~search_active

\* The popup is open in Normal mode, with a finished search behind it.
C11_Witness ==
  /\ show_help
  /\ ~search_active
  /\ key_event = Char("?")
  /\ search_results # <<>>

\* Every step of the model is a step of handle_key_event.
StepsAreHandlerCalls ==
  [][self' \in handle_key_event(self, key_event')]_vars

\* C12: handle_key_event is total: no call, from any reachable state and
\* for any key, runs into a remainder by zero, a subtraction below zero or
\* a read of search_results at an index it does not have.
C12_NoFailure ==
  failure = NoFailure

\* "Previous match" has just wrapped from the first match to the last.
C12_Witness ==
  /\ AdvancedPrev
  /\ Len(entry.search_results) = 2
  /\ entry.search_result_index = Some(0)
  /\ search_result_index = Some(1)
  /\ failure = NoFailure

\* The key has no arm in the match of the mode the call is dispatched in.
Unmapped(active, k) ==
  IF active
  THEN k \in {Char("/")} \cup {Code(x) : x \in SearchIgnoredCodes}
  ELSE k \in {Char(c) : c \in Chars \ NormalChars}
               \cup {Code(x) : x \in NormalIgnoredCodes}

\* C13: a key that is not mapped in the current mode leaves running,
\* search_active, search_query, search_results, search_result_index and the
\* tree widget state unchanged; it can only close the help popup.
C13_UnmappedKeyIsNoOp ==
  [][ Unmapped(search_active, key_event')
        => /\ UNCHANGED <<running, dependency_tree, tree_widget_state,
                          search_active, search_query, search_results,
                          search_result_index>>
           /\ show_help' = FALSE ]_vars

\* `/` has just been ignored by a search prompt holding a query.
C13_Witness ==
  /\ key_event = Char("/")
  /\ entry.search_active
  /\ entry.search_query # <<>>
  /\ search_query = entry.search_query
  /\ search_active

\* C14: on the tree "serde", "serde_json", "tokio" the keys `/`, `s`, `e`
\* from the initial state give search_results = [0, 1], search_result_index
\* = Some(0) and selected = node 0; a following Down selects node 1 and a
\* second Down wraps back to node 0.
C14_SerdeWalkThrough ==
  dependency_tree = SerdeTree
    => /\ scenario = 3
            => /\ search_results = <<0, 1>>
               /\ search_result_index = Some(0)
               /\ tree_widget_state.selected = Some(0)
       /\ scenario = 4 => tree_widget_state.selected = Some(1)
       /\ scenario = 5 => tree_widget_state.selected = Some(0)

\* The whole walk-through has been played on the serde tree.
C14_Witness ==
  /\ dependency_tree = SerdeTree
  /\ scenario = Len(Scenario)
  /\ search_query = <<"s", "e">>
  /\ tree_widget_state.selected = Some(0)

\* q is a subsequence of n: its characters occur in n in the same order,
\* not necessarily next to each other.
IsSubsequence(q, n) ==
  \E f \in [1 .. Len(q) -> 1 .. Len(n)] :
    /\ \A i \in 1 .. Len(q) : n[f[i]] = q[i]
    /\ \A i \in 1 .. Len(q) : \A j \in 1 .. Len(q) : i < j => f[i] < f[j]

\* C15: for every non-empty query Q and node name N, is_subsequence_match(Q,
\* N) is true exactly when the lower-cased characters of Q occur in the
\* lower-cased N in the same order; "ab" matches "Alpha-Beta" and "Zab" but
\* not "ba".
C15_MatchIsSubsequence ==
  /\ search_query # <<>>
       => \A i \in 1 .. Len(dependency_tree) :
            is_subsequence_match(search_query, dependency_tree[i])
              <=> IsSubsequence(to_lowercase(search_query),
                                to_lowercase(dependency_tree[i]))
  /\ is_subsequence_match(<<"a", "b">>, AlphaBeta)
  /\ is_subsequence_match(<<"a", "b">>, Zab)
  /\ ~is_subsequence_match(<<"a", "b">>, Ba)

\* "aB" has just been matched against "Alpha-Beta".
C15_Witness ==
  /\ dependency_tree = <<AlphaBeta>>
  /\ search_query = <<"a", "B">>
  /\ key_event = Char("B")
  /\ search_results = <<0>>

\* The call being made edits the query: a character typed, or Backspace, in
\* Searching mode.
EditsQuery ==
  /\ search_active
  /\ \/ key_event' = Code("Backspace")
     \/ \E c \in Chars \ {"/"} : key_event' = Char(c)

\* The ids of the nodes of the tree whose names match the query.
MatchingIds(query, tree) ==
  {n \in NodeIds(tree) : is_subsequence_match(query, tree[n + 1])}

\* C16: after a query edit in Searching mode, an empty query leaves
\* search_results empty and search_result_index None; a non-empty one leaves
\* in search_results exactly the ids of the matching nodes in strictly
\* ascending order, search_result_index Some(0) if there is a match and None
\* if not, and selected on the first match if there is one and unchanged if
\* not.
C16_EditRecomputes ==
  [][ EditsQuery
        => IF search_query' = <<>>
           THEN search_results' = <<>> /\ search_result_index' = None
           ELSE /\ {search_results'[i] : i \in 1 .. Len(search_results')}
                     = MatchingIds(search_query', dependency_tree)
                /\ \A i \in 1 .. Len(search_results') - 1 :
                     search_results'[i] < search_results'[i + 1]
                /\ search_result_index' =
                     IF search_results' = <<>> THEN None ELSE Some(0)
                /\ tree_widget_state'.selected =
                     IF search_results' = <<>>
                     THEN tree_widget_state.selected
                     ELSE Some(search_results'[1]) ]_vars

\* Backspace has just emptied a query that had matches.
C16_Witness ==
  /\ key_event = Code("Backspace")
  /\ entry.search_active
  /\ Len(entry.search_query) = 1
  /\ entry.search_results # <<>>
  /\ search_query = <<>>
  /\ search_results = <<>>
  /\ search_result_index = None

\* The call being made runs the search logic: perform_search (a query
\* edit), or next_search_result / prev_search_result (Down, Up in Searching
\* mode, `n`, `N` in Normal mode).
RunsSearchLogic ==
  \/ EditsQuery
  \/ search_active /\ key_event' \in {Code("Down"), Code("Up")}
  \/ ~search_active /\ key_event' \in {Char("n"), Char("N")}

\* C17: every element of search_results is the index of a node of the tree,
\* and whatever the search logic writes into tree_widget_state.selected is
\* Some element of the current search_results, never None and never an id
\* outside the node collection.
C17_SearchSelectsOnlyMatches ==
  /\ [](\A i \in 1 .. Len(search_results) :
          search_results[i] \in NodeIds(dependency_tree))
  /\ [][ (RunsSearchLogic
            /\ tree_widget_state'.selected # tree_widget_state.selected)
           => /\ tree_widget_state'.selected # None
              /\ \E i \in 1 .. Len(search_results') :
                   tree_widget_state'.selected = Some(search_results'[i])
              /\ tree_widget_state'.selected[1] \in NodeIds(dependency_tree)
       ]_vars

\* `N` in Normal mode has just moved the selection from the first match to
\* the last.
C17_Witness ==
  /\ key_event = Char("N")
  /\ ~entry.search_active
  /\ entry.search_result_index = Some(0)
  /\ Len(search_results) = 2
  /\ search_result_index = Some(1)
  /\ tree_widget_state.selected = Some(search_results[2])

\* C18: Enter in Searching mode sets search_active to false and leaves
\* search_query, search_results, search_result_index, the selected node and
\* running unchanged.
C18_EnterKeepsHighlights ==
  [][ (search_active /\ key_event' = Code("Enter"))
        => /\ search_active' = FALSE
           /\ UNCHANGED <<search_query, search_results, search_result_index,
                          tree_widget_state, running>> ]_vars

\* Enter has just closed a search prompt that had a query and matches.
C18_Witness ==
  /\ key_event = Code("Enter")
  /\ entry.search_active
  /\ ~search_active
  /\ search_query # <<>>
  /\ search_results # <<>>
  /\ search_result_index # None

\* C19: clearing the search (`c` in Normal mode, Escape in Searching mode)
\* leaves the selected node and the rest of the tree widget state as they
\* were.
C19_ClearKeepsSelection ==
  [][ (\/ ~search_active /\ key_event' = Char("c")
       \/ search_active /\ key_event' = Code("Esc"))
        => tree_widget_state' = tree_widget_state ]_vars

\* `c` has just cleared a search whose match is still selected.
C19_Witness ==
  /\ key_event = Char("c")
  /\ ~entry.search_active
  /\ entry.search_results # <<>>
  /\ search_results = <<>>
  /\ tree_widget_state.selected = Some(entry.search_results[1])

\* C20: in Normal mode Down and Up go to the tree widget and never change
\* search_result_index or search_results, also when search_results is not
\* empty; the branches of those arms that call next_search_result and
\* prev_search_result are never taken.
C20_NormalArrowsDelegate ==
  [][ (~search_active /\ key_event' \in {Code("Down"), Code("Up")})
        => /\ UNCHANGED <<search_results, search_result_index, search_active,
                          search_query>>
           /\ tree_widget_state'
                \in Moved(tree_widget_state, dependency_tree) ]_vars

\* Down has just been handled in Normal mode over a match list with more
\* than one match, and the cursor stayed on the first.
C20_Witness ==
  /\ key_event = Code("Down")
  /\ ~entry.search_active
  /\ Len(entry.search_results) = 2
  /\ entry.search_result_index = Some(0)
  /\ search_result_index = Some(0)
  /\ search_results = entry.search_results

====
